---------------------------- MODULE Spec2Model ----------------------------
(***************************************************************************)
(* Model of MatChem.py: enumeration of benzenoid systems (sets of hexagons *)
(* of the hexagonal lattice) up to the 12 lattice symmetries, and their    *)
(* classification as coronoid / catacondensed.                             *)
(*                                                                         *)
(* A hexagon is a pair <<i, j>>; a benzenoid system is a Python list or    *)
(* tuple of hexagons, modelled as a sequence.  A call's outcome is a       *)
(* record [exc, val]: exc = "" and val the returned value, or exc the name *)
(* of the exception the call ends in.                                      *)
(***************************************************************************)
EXTENDS Integers, Sequences, FiniteSets, TLC

(***************************************************************************)
(* Bounds of the model.                                                    *)
(***************************************************************************)
\* largest argument h of list_of_benzenoids / benzenoids that is explored
MaxH == 6
\* input shapes of the direct calls have coordinates in 0..MaxCoord
MaxCoord == 2
\* input shapes of the direct calls list at most MaxLen hexagons
MaxLen == 3
\* translations of an input shape move it by at most MaxOff in i and in j
MaxOff == 1

(***************************************************************************)
(* Python built-ins used by the program.                                   *)
(***************************************************************************)
Return(v) == [exc |-> "", val |-> v]

Raise(e) == [exc |-> e, val |-> <<>>]

Range(s) == {s[k] : k \in 1..Len(s)}

\* tuple comparison (i1, j1) < (i2, j2)
LessPair(p, q) == p[1] < q[1] \/ (p[1] = q[1] /\ p[2] < q[2])

\* list/tuple comparison a < b of two sequences of pairs (lexicographic,
\* a proper prefix being smaller)
RECURSIVE LessFrom(_, _, _)
LessFrom(a, b, k) ==
    IF k > Len(a) \/ k > Len(b) THEN Len(a) < Len(b)
    ELSE IF a[k] = b[k] THEN LessFrom(a, b, k + 1)
    ELSE LessPair(a[k], b[k])

LessSeq(a, b) == LessFrom(a, b, 1)

\* sorted(list of pairs)
sorted(s) == SortSeq(s, LessPair)

\* min(iterable of ints), the iterable non-empty
MinInt(S) == CHOOSE x \in S : \A y \in S : x <= y

\* min(list of lists): the first smallest element
RECURSIVE MinFrom(_, _, _)
MinFrom(l, k, best) ==
    IF k > Len(l) THEN best
    ELSE MinFrom(l, k + 1, IF LessSeq(l[k], best) THEN l[k] ELSE best)

MinOfList(l) == MinFrom(l, 2, l[1])

(***************************************************************************)
(* Canonical form engine (MatChem.py lines 12-51).                         *)
(***************************************************************************)
\* mutant of to_canonical_trans: min(..., default=0), so that an empty
\* collection comes back as an empty list
to_canonical_trans_EmptyDefault(b) ==
    LET i_min == IF Len(b) = 0 THEN 0
                 ELSE MinInt({b[k][1] : k \in 1..Len(b)})
        j_min == IF Len(b) = 0 THEN 0
                 ELSE MinInt({b[k][2] : k \in 1..Len(b)})
    IN  Return(sorted([k \in 1..Len(b) |->
                          <<b[k][1] - i_min, b[k][2] - j_min>>]))

\* to_canonical_trans(b): min() of an empty generator raises ValueError
to_canonical_trans(b) ==
    IF Len(b) = 0 THEN Raise("ValueError")
    ELSE LET i_min == MinInt({b[k][1] : k \in 1..Len(b)})
             j_min == MinInt({b[k][2] : k \in 1..Len(b)})
         IN  Return(sorted([k \in 1..Len(b) |->
                               <<b[k][1] - i_min, b[k][2] - j_min>>]))

rotation_60(b) == [k \in 1..Len(b) |-> <<b[k][1] + b[k][2], -b[k][1]>>]

reflection(b) == [k \in 1..Len(b) |-> <<-b[k][1], b[k][1] + b[k][2]>>]

\* for i in range(5): l.append(to_canonical_trans(rotation_60(l[-1])))
RotationSteps == 5

\* mutant of the rotation loop: one rotation too few
RECURSIVE RotationLoop_OneShort(_, _)
RotationLoop_OneShort(l, n) ==
    IF n <= 1 THEN l
    ELSE RotationLoop_OneShort(
             Append(l, to_canonical_trans(rotation_60(l[Len(l)])).val), n - 1)

RECURSIVE RotationLoop(_, _)
RotationLoop(l, n) ==
    IF n = 0 THEN l
    ELSE RotationLoop(
             Append(l, to_canonical_trans(rotation_60(l[Len(l)])).val), n - 1)

\* mutant of to_canonical: the reflected images are left out
to_canonical_NoReflection(b) ==
    LET first == to_canonical_trans(b)
    IN  IF first.exc # "" THEN first
        ELSE Return(MinOfList(RotationLoop(<<first.val>>, RotationSteps)))

to_canonical(b) ==
    LET first == to_canonical_trans(b)
    IN  IF first.exc # "" THEN first
        ELSE LET l == RotationLoop(<<first.val>>, RotationSteps)
                 r == RotationLoop(<<to_canonical_trans(reflection(b)).val>>,
                                   RotationSteps)
                 ml == MinOfList(l)
                 mr == MinOfList(r)
             IN  Return(IF LessSeq(mr, ml) THEN mr ELSE ml)

\* sorted(to_canonical(b1)) == sorted(to_canonical(b2)); an exception of
\* either call propagates
are_isomorphic(b1, b2) ==
    LET c1 == to_canonical(b1)
        c2 == to_canonical(b2)
    IN  IF c1.exc # "" THEN c1
        ELSE IF c2.exc # "" THEN c2
        ELSE Return(sorted(c1.val) = sorted(c2.val))

(***************************************************************************)
(* Growth enumerator (MatChem.py lines 53-87).                             *)
(***************************************************************************)
neighbours(h) ==
    << <<h[1] + 1, h[2]>>, <<h[1] + 1, h[2] - 1>>, <<h[1], h[2] - 1>>,
       <<h[1] - 1, h[2]>>, <<h[1] - 1, h[2] + 1>>, <<h[1], h[2] + 1>> >>

\* mutant of layer_of_fat: only the neighbours of the last hexagon of b
layer_of_fat_LastOnly(b) ==
    {n \in Range(neighbours(b[Len(b)])) : n \notin Range(b)}

\* mutant of layer_of_fat: the test "n not in b" is left out
layer_of_fat_NoExclusion(b) ==
    UNION {Range(neighbours(b[k])) : k \in 1..Len(b)}

\* the set f built by layer_of_fat(b); list(f) lists it in an order the
\* callers do not depend on
layer_of_fat(b) ==
    {n \in UNION {Range(neighbours(b[k])) : k \in 1..Len(b)} : n \notin Range(b)}

\* b + (hexagon,) for every hexagon of layer_of_fat(b), each passed to
\* to_canonical (lines 83-85)
Candidates(b) == {Append(b, hexagon) : hexagon \in layer_of_fat(b)}

\* mutant of line 85: the candidates are normalised by translation only
Extensions_TransOnly(b) == {to_canonical_trans(c) : c \in Candidates(b)}

\* the outcomes of the calls to_canonical(b + (hexagon,)) of line 85, whose
\* values are added to l_new
Extensions(b) == {to_canonical(c) : c \in Candidates(b)}

\* list(S) for a set S: some listing of its elements
RECURSIVE SetToSeq(_)
SetToSeq(S) ==
    IF S = {} THEN <<>>
    ELSE LET x == CHOOSE y \in S : TRUE IN <<x>> \o SetToSeq(S \ {x})

\* sorted(list(l_new)) for a set of tuples of pairs
SortedList(S) == SortSeq(SetToSeq(S), LessSeq)

\* l = [((0, 0),)]
Benzene == << <<0, 0>> >>

\* one pass of the loop body of lines 80-86 over the whole list l
GrowthStep(l) ==
    SortedList(UNION {{r.val : r \in Extensions(l[k])} : k \in 1..Len(l)})

RECURSIVE GrowthLoop(_, _)
GrowthLoop(l, steps) ==
    IF steps <= 0 THEN l ELSE GrowthLoop(GrowthStep(l), steps - 1)

\* the value list_of_benzenoids(h) returns
ListOfBenzenoids(h) == GrowthLoop(<<Benzene>>, h - 1)

(***************************************************************************)
(* Topological classifier (MatChem.py lines 89-181).  A float x is a       *)
(* multiple Xu * sqrt(3)/2 and a float y a multiple Yu * 1/2; the pair     *)
(* <<Xu, Yu>> stands for the point, and round(., 3) maps it to integer     *)
(* thousandths.                                                            *)
(***************************************************************************)
\* math.sqrt(3) / 2 in units of 10^-7
Sqrt3Half == 8660254
\* 10^-3 (the third decimal of round(x, 3)) in units of 10^-7
RoundUnit == 10000
\* 1 / 2 in thousandths
HalfUnit == 500

\* the corner offsets of get_vertices, in units of (sqrt(3)/2, 1/2)
VertexTemplate ==
    << <<1, 1>>, <<0, 2>>, <<-1, 1>>, <<-1, -1>>, <<0, -2>>, <<1, -1>> >>

\* get_vertices / get_vertices1: the 6 corners of hexagon h as points
get_vertices1(h) ==
    [k \in 1..6 |-> <<2 * h[2] + h[1] + VertexTemplate[k][1],
                      3 * h[1] + VertexTemplate[k][2]>>]

\* (round(x, 3), round(y, 3)) in thousandths: round to nearest
Round3(v) ==
    <<(v[1] * Sqrt3Half + RoundUnit \div 2) \div RoundUnit, v[2] * HalfUnit>>

get_vertices_system(b) ==
    {Round3(get_vertices1(b[k])[c]) : k \in 1..Len(b), c \in 1..6}

\* tuple(sorted([p, q]))
SortedPair(p, q) == IF LessPair(q, p) THEN <<q, p>> ELSE <<p, q>>

\* the edges (v[i-1], v[i]) of hexagon h, i in range(6), v[-1] the last corner
get_edges(h) ==
    LET v == get_vertices1(h)
    IN  {SortedPair(Round3(v[IF c = 1 THEN 6 ELSE c - 1]), Round3(v[c])) :
             c \in 1..6}

get_edges_system(b) == UNION {get_edges(b[k]) : k \in 1..Len(b)}

\* mutant of is_coronoid: m > n + h
is_coronoid_Strict(b) ==
    LET n == Cardinality(get_vertices_system(b))
        m == Cardinality(get_edges_system(b))
        h == Len(b)
    IN  m > n + h

is_coronoid(b) ==
    LET n == Cardinality(get_vertices_system(b))
        m == Cardinality(get_edges_system(b))
        h == Len(b)
    IN  m >= n + h

\* mutant of is_catacondensed: 6 * n - 2 * n
is_catacondensed_OffByOne(b) ==
    IF Len(b) <= 2 THEN TRUE
    ELSE LET n == Len(b)
         IN  Cardinality(get_vertices_system(b)) = 6 * n - 2 * n

is_catacondensed(b) ==
    IF Len(b) <= 2 THEN TRUE
    ELSE LET n == Len(b)
         IN  Cardinality(get_vertices_system(b)) = 6 * n - 2 * (n - 1)

\* mutant of catacondensed_filter: the if branch is left out
catacondensed_filter_SecondTestOnly(b) ==
    \A k \in 1..Len(b) :
        LET i == b[k][1]
            j == b[k][2]
        IN  ~(<<i + 1, j>> \in Range(b) /\ <<i + 1, j - 1>> \in Range(b))

catacondensed_filter(b) ==
    \A k \in 1..Len(b) :
        LET i == b[k][1]
            j == b[k][2]
        IN  /\ ~(<<i, j + 1>> \in Range(b) /\ <<i + 1, j>> \in Range(b))
            /\ ~(<<i + 1, j>> \in Range(b) /\ <<i + 1, j - 1>> \in Range(b))

\* list(filter(lambda x: not is_coronoid(x), l)) of line 153
RECURSIVE FilterNotCoronoid(_)
FilterNotCoronoid(l) ==
    IF l = <<>> THEN <<>>
    ELSE (IF ~is_coronoid(Head(l)) THEN <<Head(l)>> ELSE <<>>)
             \o FilterNotCoronoid(Tail(l))

(***************************************************************************)
(* The program as a state machine.  The module is loaded (h, the           *)
(* module-level name read by benzenoids, is unbound until line 227 binds   *)
(* it) and one of its functions is called; list_of_benzenoids runs one     *)
(* shape b of the working list per step, the filters one entry per step.   *)
(***************************************************************************)
VARIABLES
    h,       \* the module-level name h: {} while unbound, {v} once bound to v
    fn,      \* the function that was called ("" before the call)
    n,       \* its argument: a size, or nothing (0) for a call on a shape
    hh,      \* the parameter h of the running list_of_benzenoids
    i,       \* its loop counter (line 80)
    l,       \* its working list; then the list being filtered
    l_new,   \* its set l_new
    k,       \* position of the next entry of l (for b in l / filter)
    calls,   \* the arguments the last step passed to to_canonical
    out,     \* the entries the running filter has kept
    shape,   \* the shape b a direct call is made on
    canon0,  \* outcome of to_canonical on the shape as first given
    moved,   \* whether the shape has been translated
    res,     \* outcome of the call, once pc = "done"
    pc

vars == <<h, fn, n, hh, i, l, l_new, k, calls, out, shape, canon0, moved,
          res, pc>>

enumVars == <<hh, i, l, l_new, k, calls, out>>

shapeVars == <<shape, canon0, moved>>

(***************************************************************************)
(* The shapes the direct calls are made on.                                *)
(***************************************************************************)
Grid == (0..MaxCoord) \X (0..MaxCoord)

\* hexagons at lattice distance at most MaxCoord from the corner <<0, 0>>
Triangle == {c \in Grid : c[1] + c[2] <= MaxCoord}

Adjacent(p, q) == q \in Range(neighbours(p))

\* the cells of S reachable from seen through adjacent cells of S
RECURSIVE Flood(_, _)
Flood(seen, S) ==
    LET more == {c \in S \ seen : \E d \in seen : Adjacent(c, d)}
    IN  IF more = {} THEN seen ELSE Flood(seen \cup more, S)

Connected(S) == S # {} /\ Flood({CHOOSE c \in S : TRUE}, S) = S

\* the connected sets of hexagons inside Grid, each as a sorted list
ConnectedShapes ==
    {sorted(SetToSeq(S)) : S \in {T \in SUBSET Grid : Connected(T)}}

\* the lists of at most MaxLen distinct hexagons of Triangle, sorted; the
\* empty list is one of them
InputShapes ==
    {sorted(SetToSeq(S)) :
         S \in {T \in SUBSET Triangle : Cardinality(T) <= MaxLen}}

Offsets == ((-MaxOff)..MaxOff) \X ((-MaxOff)..MaxOff) \ {<<0, 0>>}

\* the functions called with a size
SizeFunctions ==
    {"list_of_benzenoids", "benzenoids", "list_of_catacondensed", "l_cat"}

Sizes == 1..MaxH

\* the module is loaded and nothing has run
Loaded ==
    /\ h = {} /\ fn = "" /\ n = 0 /\ hh = 0 /\ i = 0 /\ l = <<>>
    /\ l_new = {} /\ k = 0 /\ calls = {} /\ out = <<>>
    /\ moved = FALSE /\ res = Return(<<>>)

\* a function of a size is about to be called
InitEnumerate ==
    /\ Loaded /\ canon0 = Return(<<>>)
    /\ shape = <<>> /\ pc = "idle"

\* a classifier is about to be called on a connected shape
InitClassify ==
    /\ Loaded /\ canon0 = Return(<<>>)
    /\ shape \in ConnectedShapes /\ pc = "shape"

Init == InitEnumerate \/ InitClassify

\* line 227: h = int(input())
MainInput(v) ==
    /\ pc = "idle" /\ h = {}
    /\ h' = {v}
    /\ UNCHANGED <<fn, n, enumVars, shapeVars, res, pc>>

\* a call f(a).  list_of_benzenoids runs with its argument; benzenoids (line
\* 152) runs list_of_benzenoids(h) with the module-level h, and so do
\* list_of_catacondensed (line 166) and line 235 (l_cat, run by the main
\* block with a = h) through benzenoids.
Call(f, a) ==
    /\ pc = "idle"
    /\ f = "l_cat" => h = {a}
    /\ fn' = f /\ n' = a
    /\ IF f = "list_of_benzenoids"
       THEN /\ hh' = a /\ l' = <<Benzene>> /\ i' = 0 /\ pc' = "for_i"
            /\ UNCHANGED res
       ELSE IF h = {}
       THEN /\ res' = Raise("NameError") /\ pc' = "done"
            /\ UNCHANGED <<hh, l, i>>
       ELSE /\ hh' = CHOOSE v \in h : TRUE
            /\ l' = <<Benzene>> /\ i' = 0 /\ pc' = "for_i"
            /\ UNCHANGED res
    /\ UNCHANGED <<h, l_new, k, calls, out, shapeVars>>

\* line 80-81: the next pass of for i in range(h - 1)
ForI ==
    /\ pc = "for_i" /\ i < hh - 1
    /\ l_new' = {} /\ k' = 1 /\ pc' = "for_b"
    /\ UNCHANGED <<h, fn, n, hh, i, l, calls, out, shapeVars, res>>

\* lines 82-85 for one b of l: every candidate goes through to_canonical
ForB ==
    /\ pc = "for_b" /\ k <= Len(l)
    /\ LET cs == Candidates(l[k])
           rs == Extensions(l[k])
           failed == {r \in rs : r.exc # ""}
       IN  /\ calls' = cs
           /\ IF failed # {}
              THEN /\ res' = CHOOSE r \in failed : TRUE
                   /\ pc' = "done"
                   /\ UNCHANGED <<l_new, k>>
              ELSE /\ l_new' = l_new \cup {r.val : r \in rs}
                   /\ k' = k + 1
                   /\ UNCHANGED <<res, pc>>
    /\ UNCHANGED <<h, fn, n, hh, i, l, out, shapeVars>>

\* line 86: l = sorted(list(l_new))
EndForB ==
    /\ pc = "for_b" /\ k > Len(l)
    /\ l' = SortedList(l_new) /\ i' = i + 1 /\ pc' = "for_i"
    /\ UNCHANGED <<h, fn, n, hh, l_new, k, calls, out, shapeVars, res>>

\* line 87: return l, to the caller of list_of_benzenoids
ReturnList ==
    /\ pc = "for_i" /\ i >= hh - 1
    /\ IF fn = "list_of_benzenoids"
       THEN /\ res' = Return(l) /\ pc' = "done" /\ UNCHANGED <<k, out>>
       ELSE /\ k' = 1 /\ out' = <<>> /\ pc' = "filter" /\ UNCHANGED res
    /\ UNCHANGED <<h, fn, n, hh, i, l, l_new, calls, shapeVars>>

\* line 153, one entry: filter(lambda x: not is_coronoid(x), l)
FilterStep ==
    /\ pc = "filter" /\ k <= Len(l)
    /\ out' = IF ~is_coronoid(l[k]) THEN Append(out, l[k]) ELSE out
    /\ k' = k + 1
    /\ UNCHANGED <<h, fn, n, hh, i, l, l_new, calls, shapeVars, res, pc>>

\* line 154: return l, to the caller of benzenoids
ReturnBenzenoids ==
    /\ pc = "filter" /\ k > Len(l)
    /\ IF fn = "benzenoids"
       THEN /\ res' = Return(out) /\ pc' = "done" /\ UNCHANGED <<l, k, out>>
       ELSE /\ l' = out /\ k' = 1 /\ out' = <<>> /\ pc' = "filter_cata"
            /\ UNCHANGED res
    /\ UNCHANGED <<h, fn, n, hh, i, l_new, calls, shapeVars>>

\* line 166 (filter(is_catacondensed, ...)) or line 235
\* (filter(catacondensed_filter, ...)), one entry
FilterCataStep ==
    /\ pc = "filter_cata" /\ k <= Len(l)
    /\ LET keep == IF fn = "l_cat" THEN catacondensed_filter(l[k])
                   ELSE is_catacondensed(l[k])
       IN  out' = IF keep THEN Append(out, l[k]) ELSE out
    /\ k' = k + 1
    /\ UNCHANGED <<h, fn, n, hh, i, l, l_new, calls, shapeVars, res, pc>>

ReturnCata ==
    /\ pc = "filter_cata" /\ k > Len(l)
    /\ res' = Return(out) /\ pc' = "done"
    /\ UNCHANGED <<h, fn, n, hh, i, l, l_new, k, calls, out, shapeVars>>

\* a direct call of a classifier on the shape
Classifiers == {"is_coronoid", "is_catacondensed", "catacondensed_filter"}

Classify(f) ==
    /\ pc = "shape"
    /\ fn' = f /\ pc' = "done"
    /\ res' = Return(CASE f = "is_coronoid" -> is_coronoid(shape)
                      [] f = "is_catacondensed" -> is_catacondensed(shape)
                      [] OTHER -> catacondensed_filter(shape))
    /\ UNCHANGED <<h, n, enumVars, shapeVars>>

\* the calls with a size: the enumeration and the filters of its list
NextEnumerate ==
    \/ \E v \in Sizes : MainInput(v)
    \/ \E f \in SizeFunctions, a \in Sizes : Call(f, a)
    \/ ForI
    \/ ForB
    \/ EndForB
    \/ ReturnList
    \/ FilterStep
    \/ ReturnBenzenoids
    \/ FilterCataStep
    \/ ReturnCata

SpecEnumerate == InitEnumerate /\ [][NextEnumerate]_vars

\* the calls with a size and the classifiers called on a shape
Next ==
    \/ NextEnumerate
    \/ \E f \in Classifiers : Classify(f)

Spec == Init /\ [][Next]_vars

(***************************************************************************)
(* Direct calls of the canonical form engine: a caller holds a shape,      *)
(* builds symmetry images, translates and relists it with the program's    *)
(* rotation_60 and reflection, and calls to_canonical_trans or             *)
(* to_canonical on what it holds.                                          *)
(***************************************************************************)
InitCanon ==
    /\ Loaded /\ pc = "canon"
    /\ shape \in InputShapes
    /\ canon0 = to_canonical(shape)

Rotate ==
    /\ pc = "canon" /\ ~moved /\ shape # <<>>
    /\ shape' = rotation_60(shape)
    /\ UNCHANGED <<h, fn, n, enumVars, canon0, moved, res, pc>>

Reflect ==
    /\ pc = "canon" /\ ~moved /\ shape # <<>>
    /\ shape' = reflection(shape)
    /\ UNCHANGED <<h, fn, n, enumVars, canon0, moved, res, pc>>

Translate(d) ==
    /\ pc = "canon" /\ ~moved /\ shape # <<>>
    /\ shape' = [p \in 1..Len(shape) |->
                     <<shape[p][1] + d[1], shape[p][2] + d[2]>>]
    /\ moved' = TRUE
    /\ UNCHANGED <<h, fn, n, enumVars, canon0, res, pc>>

\* the same hexagons listed in another order: two neighbours exchanged
Reorder(p) ==
    /\ pc = "canon" /\ p < Len(shape)
    /\ shape' = [shape EXCEPT ![p] = shape[p + 1], ![p + 1] = shape[p]]
    /\ UNCHANGED <<h, fn, n, enumVars, canon0, moved, res, pc>>

CanonFunctions == {"to_canonical_trans", "to_canonical"}

CallCanon(f) ==
    /\ pc = "canon"
    /\ fn' = f /\ pc' = "done"
    /\ res' = IF f = "to_canonical" THEN to_canonical(shape)
              ELSE to_canonical_trans(shape)
    /\ UNCHANGED <<h, n, enumVars, shapeVars>>

NextCanon ==
    \/ Rotate
    \/ Reflect
    \/ \E d \in Offsets : Translate(d)
    \/ \E p \in 1..MaxLen : Reorder(p)
    \/ \E f \in CanonFunctions : CallCanon(f)

SpecCanon == InitCanon /\ [][NextCanon]_vars

\* every entry point of the module
InitAll == Init \/ InitCanon

NextAll == Next \/ NextCanon

SpecAll == InitAll /\ [][NextAll]_vars


(***************************************************************************)
(* Vocabulary of the properties.                                           *)
(***************************************************************************)
\* the connected sets of m hexagons inside Grid
ConnectedSetsOfSize(m) ==
    {T \in SUBSET Grid : Cardinality(T) = m /\ Connected(T)}

\* b encloses an un-tiled region: some hexagon outside b cannot be joined,
\* through adjacent hexagons outside b, to the rim of the box drawn one
\* hexagon around b (every hexagon of the rim lies outside b and is joined
\* to the unbounded part of the lattice)
HasHole(b) ==
    LET S == Range(b)
        I == {c[1] : c \in S}
        J == {c[2] : c \in S}
        lo == <<MinInt(I) - 1, MinInt(J) - 1>>
        hi == <<-MinInt({-x : x \in I}) + 1, -MinInt({-x : x \in J}) + 1>>
        box == (lo[1]..hi[1]) \X (lo[2]..hi[2])
        rim == {c \in box : c[1] \in {lo[1], hi[1]} \/ c[2] \in {lo[2], hi[2]}}
    IN  Flood(rim, box \ S) # box \ S

\* the ring of 6 hexagons around the empty cell <<0, 0>>
Ring6 == neighbours(<<0, 0>>)

\* the linear chain of 6 hexagons
Chain6 == [c \in 1..6 |-> <<0, c - 1>>]

\* a filter has just decided on entry l[k - 1]
Decided == pc \in {"filter", "filter_cata"} /\ k > 1

\* ... and kept it
Kept == out # <<>> /\ out[Len(out)] = l[k - 1]

(***************************************************************************)
(* C1.  to_canonical is a class invariant: called on any of the 12         *)
(* symmetry images of a shape (rotation_60 applied 0..5 times to the shape *)
(* or to its reflection), translated by any offset and listed in any       *)
(* order, it returns what it returns on the shape as first given.          *)
(***************************************************************************)
C1_ClassInvariant ==
    (pc = "done" /\ fn = "to_canonical") => res = canon0

\* a three-hexagon shape, reflected, translated and relisted so that its
\* normalised form is none of the 6 rotations of the canonical form, on
\* which to_canonical has returned
C1_Witness ==
    /\ pc = "done" /\ fn = "to_canonical" /\ moved
    /\ Len(shape) = 3 /\ shape # sorted(shape)
    /\ res.exc = "" /\ res = canon0
    /\ to_canonical_trans(shape).val
           \notin Range(RotationLoop(<<canon0.val>>, RotationSteps))

(***************************************************************************)
(* C2.  list_of_benzenoids misses no class: the canonical form of every    *)
(* connected set of h hexagons (inside Grid) is an entry of                *)
(* list_of_benzenoids(h), and the list has 1, 1 and 3 entries for h = 1,   *)
(* 2 and 3.                                                                *)
(***************************************************************************)
C2_NoClassMissed ==
    (pc = "done" /\ fn = "list_of_benzenoids") =>
        /\ res.exc = ""
        /\ \A T \in ConnectedSetsOfSize(n) :
               to_canonical(SetToSeq(T)).val \in Range(res.val)
        /\ n = 1 => Len(res.val) = 1
        /\ n = 2 => Len(res.val) = 1
        /\ n = 3 => Len(res.val) = 3

\* list_of_benzenoids(4) has returned, and Grid holds a connected set of 4
\* hexagons that is not in canonical form
C2_Witness ==
    /\ pc = "done" /\ fn = "list_of_benzenoids" /\ n = 4
    /\ \E T \in ConnectedSetsOfSize(4) :
           /\ to_canonical(SetToSeq(T)).val # sorted(SetToSeq(T))
           /\ to_canonical(SetToSeq(T)).val \in Range(res.val)

(***************************************************************************)
(* C3.  Dedup soundness: in a run of list_of_benzenoids, the working list  *)
(* l before the first and after every growth step (the last one's is the   *)
(* list returned) holds no two entries, at different positions, that       *)
(* are_isomorphic calls isomorphic.                                        *)
(***************************************************************************)
C3_DedupSound ==
    (fn = "list_of_benzenoids" /\ pc = "for_i") =>
        \A a, b \in 1..Len(l) :
            a < b => are_isomorphic(l[a], l[b]) = Return(FALSE)

\* the working list after the fourth growth step: 22 shapes of 5 hexagons
C3_Witness ==
    fn = "list_of_benzenoids" /\ pc = "for_i" /\ i = 4 /\ Len(l) = 22

(***************************************************************************)
(* C4.  After growth step i (i = 0 before the first) every shape of the    *)
(* working list has exactly i + 1 pairwise distinct hexagons and is        *)
(* connected; so every shape list_of_benzenoids(h) returns has exactly h   *)
(* distinct hexagons and is connected.                                     *)
(***************************************************************************)
C4_SizeAndConnected ==
    /\ pc = "for_i" =>
           \A a \in 1..Len(l) :
               /\ Len(l[a]) = i + 1
               /\ Cardinality(Range(l[a])) = i + 1
               /\ Connected(Range(l[a]))
    /\ (pc = "done" /\ fn = "list_of_benzenoids") =>
           /\ res.exc = ""
           /\ \A a \in 1..Len(res.val) :
                  /\ Len(res.val[a]) = n
                  /\ Cardinality(Range(res.val[a])) = n
                  /\ Connected(Range(res.val[a]))

\* list_of_benzenoids(5) has returned its 22 shapes
C4_Witness ==
    /\ pc = "done" /\ fn = "list_of_benzenoids" /\ n = 5
    /\ Len(res.val) = 22

(***************************************************************************)
(* C5.  Catacondensed agreement, as claimed: is_catacondensed and          *)
(* catacondensed_filter give the same answer on every shape                *)
(* list_of_benzenoids(h) returns, coronoid shapes included.                *)
(***************************************************************************)
C5_AgreeOnAll ==
    (pc = "done" /\ fn = "list_of_benzenoids") =>
        \A a \in 1..Len(res.val) :
            is_catacondensed(res.val[a]) = catacondensed_filter(res.val[a])

(***************************************************************************)
(* C5, amended.  is_catacondensed and catacondensed_filter give the same   *)
(* answer on every shape list_of_benzenoids(h) returns for which           *)
(* is_coronoid is false.                                                   *)
(***************************************************************************)
C5_AgreeOnHoleFree ==
    (pc = "done" /\ fn = "list_of_benzenoids") =>
        \A a \in 1..Len(res.val) :
            ~is_coronoid(res.val[a]) =>
                is_catacondensed(res.val[a])
                    = catacondensed_filter(res.val[a])

\* list_of_benzenoids(6) has returned; among its hole-free shapes some are
\* catacondensed and some are not, and one shape is coronoid
C5_Witness ==
    /\ pc = "done" /\ fn = "list_of_benzenoids" /\ n = 6
    /\ \E a \in 1..Len(res.val) :
           ~is_coronoid(res.val[a]) /\ is_catacondensed(res.val[a])
    /\ \E a \in 1..Len(res.val) :
           ~is_coronoid(res.val[a]) /\ ~catacondensed_filter(res.val[a])
    /\ \E a \in 1..Len(res.val) : is_coronoid(res.val[a])

(***************************************************************************)
(* C6.  is_coronoid detects holes exactly: on every connected shape it is  *)
(* true if and only if the shape encloses an un-tiled region.  Checked on  *)
(* the connected shapes inside Grid by a direct call, and on every entry   *)
(* benzenoids filters (line 153), where the entry is dropped exactly when  *)
(* it has a hole: the ring of 6 is dropped and the chain of 6 is kept.     *)
(***************************************************************************)
C6_CoronoidIffHole ==
    /\ (pc = "done" /\ fn = "is_coronoid") => (res.val <=> HasHole(shape))
    /\ (Decided /\ pc = "filter") =>
           /\ Kept <=> ~HasHole(l[k - 1])
           /\ are_isomorphic(l[k - 1], Ring6).val => ~Kept
           /\ are_isomorphic(l[k - 1], Chain6).val => Kept

\* benzenoids has just dropped the ring of 6 hexagons
C6_Witness ==
    /\ Decided /\ pc = "filter" /\ ~Kept
    /\ are_isomorphic(l[k - 1], Ring6).val
    /\ HasHole(l[k - 1])

(***************************************************************************)
(* C7.  benzenoids(n) is list_of_benzenoids(n) filtered by its own         *)
(* argument: it returns the entries of list_of_benzenoids(n) for which     *)
(* is_coronoid is false, in the same order, whatever the module-level h    *)
(* is and whether it exists.                                               *)
(***************************************************************************)
C7_OwnArgument ==
    (pc = "done" /\ fn = "benzenoids") =>
        res = Return(FilterNotCoronoid(ListOfBenzenoids(n)))

(***************************************************************************)
(* C8.  Idempotence: what to_canonical returns, re-read as a shape, is     *)
(* returned again by to_canonical; and every entry of the working list of  *)
(* list_of_benzenoids (so every entry returned) is its own canonical form. *)
(***************************************************************************)
C8_Idempotent ==
    /\ (pc = "done" /\ fn = "to_canonical" /\ res.exc = "") =>
           to_canonical(res.val) = res
    /\ pc = "for_i" =>
           \A a \in 1..Len(l) : to_canonical(l[a]) = Return(l[a])

\* to_canonical has returned, on a shape of 3 hexagons that is not in
\* canonical form
C8_Witness ==
    /\ pc = "done" /\ fn = "to_canonical" /\ res.exc = ""
    /\ Len(shape) = 3 /\ res.val # sorted(shape)
    /\ res.val # to_canonical_trans(shape).val

(***************************************************************************)
(* C9.  Empty input fails: to_canonical_trans and to_canonical called on   *)
(* an empty collection end in an exception, never in a returned value; and *)
(* list_of_benzenoids passes no empty shape to to_canonical, so that no    *)
(* run of it ends in that exception.                                       *)
(***************************************************************************)
C9_EmptyFails ==
    /\ (pc = "done" /\ fn \in CanonFunctions) =>
           /\ shape = <<>> => res.exc = "ValueError"
           /\ res.exc = "" => res.val # <<>>
    /\ \A c \in calls : c # <<>>
    /\ (pc = "done" /\ fn \in SizeFunctions) => res.exc # "ValueError"

\* to_canonical_trans was called on the empty list and raised
C9_Witness ==
    /\ pc = "done" /\ fn = "to_canonical_trans" /\ shape = <<>>
    /\ res.exc = "ValueError"

(***************************************************************************)
(* C10.  The three classifiers: on every connected shape, is_catacondensed *)
(* is true if and only if catacondensed_filter is true and is_coronoid is  *)
(* false.  On the entries of benzenoids(h) the filter by one test          *)
(* (line 166, line 235) keeps exactly what the other test accepts, and     *)
(* is_catacondensed is false on every entry benzenoids drops.              *)
(***************************************************************************)
C10_ThreeClassifiers ==
    /\ (pc = "done" /\ fn = "is_catacondensed") =>
           (res.val <=> (catacondensed_filter(shape) /\ ~is_coronoid(shape)))
    /\ (Decided /\ pc = "filter_cata") =>
           (Kept <=> IF fn = "l_cat" THEN is_catacondensed(l[k - 1])
                     ELSE catacondensed_filter(l[k - 1]))
    /\ (Decided /\ pc = "filter" /\ ~Kept) => ~is_catacondensed(l[k - 1])

\* is_catacondensed has returned False on a shape with a hole that
\* catacondensed_filter accepts
C10_Witness ==
    /\ pc = "done" /\ fn = "is_catacondensed" /\ res.val = FALSE
    /\ catacondensed_filter(shape) /\ is_coronoid(shape)

=============================================================================
